---------------------------- MODULE Spec2Model ----------------------------
(***************************************************************************)
(* A model of src/src/nordvpn.rs: the NordVPN client that runs the         *)
(* `nordvpn` command-line tool and parses its standard output.             *)
(*                                                                         *)
(* Text is a TLA+ string and is matched character by character: every      *)
(* regular expression of the source is translated to an operator that      *)
(* returns what the `regex` crate's leftmost-first search returns on it.   *)
(* The external tool is the environment: each operation draws the tool's   *)
(* answer (whether it could be spawned, whether its output is UTF-8, its   *)
(* stdout and its exit status) from a bounded set of answers.              *)
(***************************************************************************)
EXTENDS Integers, Sequences, FiniteSets, TLC

VARIABLES calls, launches, last, xml

vars == <<calls, launches, last, xml>>

(***************************************************************************)
(* Bounds of the model.                                                    *)
(***************************************************************************)
\* The number of operations called in one behaviour.
MaxCalls == 2

(***************************************************************************)
(* Characters and character classes (ASCII; the regex classes \d, \w, \s   *)
(* and . restricted to the characters the modelled tool prints).           *)
(***************************************************************************)
Digit == {"0", "1", "2", "3", "4", "5", "6", "7", "8", "9"}

Lower == {"a", "b", "c", "d", "e", "f", "g", "h", "i", "j", "k", "l", "m",
          "n", "o", "p", "q", "r", "s", "t", "u", "v", "w", "x", "y", "z"}

Upper == {"A", "B", "C", "D", "E", "F", "G", "H", "I", "J", "K", "L", "M",
          "N", "O", "P", "Q", "R", "S", "T", "U", "V", "W", "X", "Y", "Z"}

Alpha == Lower \cup Upper

\* \w
Word == Digit \cup Alpha \cup {"_"}

\* \s
Space == {" ", "\t", "\n"}

Punct == {".", ",", ":", ";", "@", "(", ")", "#", "!", "-", "+", "/", "?", "=", "&", "%", "'"}

\* . (any character but the line feed)
Dot == (Word \cup Space \cup Punct) \ {"\n"}

\* [\w ]
WordOrBlank == Word \cup {" "}

\* [\w\d\.]
HostChar == Word \cup {"."}

\* [\da-fA-F]
Hex == Digit \cup {"a", "b", "c", "d", "e", "f", "A", "B", "C", "D", "E", "F"}

\* [\d.]
NumChar == Digit \cup {"."}

Max(S) == CHOOSE x \in S : \A y \in S : y <= x

Min(S) == CHOOSE x \in S : \A y \in S : x <= y

\* The character of s at position i (1-based), "" past the end.
At(s, i) == IF 1 <= i /\ i <= Len(s) THEN SubSeq(s, i, i) ELSE ""

\* The text of s from position i to position j - 1, cut at the end of s.
Slice(s, i, j) ==
    IF j <= i \/ i > Len(s) THEN ""
    ELSE SubSeq(s, i, IF j - 1 > Len(s) THEN Len(s) ELSE j - 1)

\* Whether the literal lit stands in s at position i.
StartsAt(s, i, lit) ==
    /\ i >= 1
    /\ i + Len(lit) - 1 <= Len(s)
    /\ SubSeq(s, i, i + Len(lit) - 1) = lit

\* str::contains
Contains(s, lit) == \E i \in 1..Len(s) : StartsAt(s, i, lit)

\* The length of the longest run of characters of class C in s from position i.
RECURSIVE RunLen(_, _, _)
RunLen(s, i, C) ==
    IF i <= Len(s) /\ At(s, i) \in C THEN 1 + RunLen(s, i + 1, C) ELSE 0

\* Whether s is only white space from position i to its end (\s*$).
SpaceToEnd(s, i) == i + RunLen(s, i, Space) = Len(s) + 1

\* The value of a run of decimal digits.
RECURSIVE DecimalValue(_)
DecimalValue(d) ==
    IF Len(d) = 0 THEN 0
    ELSE 10 * DecimalValue(SubSeq(d, 1, Len(d) - 1))
         + (CHOOSE n \in 0..9 : ToString(n) = At(d, Len(d)))

\* Regex::captures: no match, or the captured groups.
NoMatch == [matched |-> FALSE, caps |-> <<>>]

Captures(groups) == [matched |-> TRUE, caps |-> groups]

\* ASCII lower case of a text (case-insensitive comparisons).
UpperLetters == "ABCDEFGHIJKLMNOPQRSTUVWXYZ"

LowerLetters == "abcdefghijklmnopqrstuvwxyz"

ToLowerChar(c) ==
    IF c \in Upper
    THEN At(LowerLetters, CHOOSE i \in 1..Len(UpperLetters) : At(UpperLetters, i) = c)
    ELSE c

RECURSIVE ToLower(_)
ToLower(s) ==
    IF Len(s) = 0 THEN "" ELSE ToLowerChar(At(s, 1)) \o ToLower(SubSeq(s, 2, Len(s)))

(***************************************************************************)
(* Values: CliResult<T>, Option<T>, and a panic (an `unwrap` on an error). *)
(***************************************************************************)
None == [some |-> FALSE, val |-> <<>>]

Some(v) == [some |-> TRUE, val |-> v]

Ok(v) == [tag |-> "Ok", error |-> "", command |-> <<>>, value |-> v]

\* CliError::FailedCommand(command), CliError::BadOutput(command)
ErrCommand(kind, cmd) == [tag |-> "Err", error |-> kind, command |-> cmd, value |-> <<>>]

\* CliError::IoError, BadEncoding, BadDateFormat, BadVersion (#[from] errors)
ErrFrom(kind) == [tag |-> "Err", error |-> kind, command |-> <<>>, value |-> <<>>]

Panic == [tag |-> "Panic", error |-> "", command |-> <<>>, value |-> <<>>]

(***************************************************************************)
(* NordVPN::command: builds the command from `run`, launches it once       *)
(* (Command::output) and decodes its stdout.  proc is the tool's answer:   *)
(*   spawn   whether the executable could be launched,                     *)
(*   utf8    whether its stdout bytes are valid UTF-8,                     *)
(*   stdout  the decoded text, success  its exit status.                   *)
(***************************************************************************)
\* command launching the tool a second time when it exited unsuccessfully.
command_retrying(run, proc) ==
    IF ~proc.spawn
    THEN [ret |-> ErrFrom("IoError"), command |-> run, launches |-> 1,
          success |-> FALSE, stdout |-> ""]
    ELSE IF ~proc.utf8
    THEN [ret |-> ErrFrom("BadEncoding"), command |-> run, launches |-> 1,
          success |-> proc.success, stdout |-> ""]
    ELSE [ret |-> Ok(<<>>), command |-> run, launches |-> (IF proc.success THEN 1 ELSE 2),
          success |-> proc.success, stdout |-> proc.stdout]

command(run, proc) ==
    IF ~proc.spawn
    THEN [ret |-> ErrFrom("IoError"), command |-> run, launches |-> 1,
          success |-> FALSE, stdout |-> ""]
    ELSE IF ~proc.utf8
    THEN [ret |-> ErrFrom("BadEncoding"), command |-> run, launches |-> 1,
          success |-> proc.success, stdout |-> ""]
    ELSE [ret |-> Ok(<<>>), command |-> run, launches |-> 1,
          success |-> proc.success, stdout |-> proc.stdout]

\* What an operation hands back: its result, and the launches it caused.
Return(c, result) == [result |-> result, command |-> c.command, launches |-> c.launches]

(***************************************************************************)
(* account                                                                 *)
(***************************************************************************)
\* Email Address:\s+(.+)\s+
RE_EMAIL_At(s, i) ==
    LET j == i + Len("Email Address:")
        \* \s+ is greedy and gives characters back; so does (.+)
        ends(k) == {d \in 1..RunLen(s, j + k, Dot) : At(s, j + k + d) \in Space}
        K == {k \in 1..RunLen(s, j, Space) : ends(k) # {}}
    IN  IF StartsAt(s, i, "Email Address:") /\ K # {}
        THEN LET p == j + Max(K)
             IN  Captures(<<Slice(s, p, p + Max(ends(Max(K))))>>)
        ELSE NoMatch

RE_EMAIL(s) ==
    LET hits == {i \in 1..Len(s) : RE_EMAIL_At(s, i).matched}
    IN  IF hits = {} THEN NoMatch ELSE RE_EMAIL_At(s, Min(hits))

\* VPN Service:\s+(\w+)\s+
RE_ACTIVE_At(s, i) ==
    LET j == i + Len("VPN Service:")
        p == j + RunLen(s, j, Space)
        e == p + RunLen(s, p, Word)
    IN  IF StartsAt(s, i, "VPN Service:") /\ p > j /\ e > p /\ At(s, e) \in Space
        THEN Captures(<<Slice(s, p, e)>>)
        ELSE NoMatch

RE_ACTIVE(s) ==
    LET hits == {i \in 1..Len(s) : RE_ACTIVE_At(s, i).matched}
    IN  IF hits = {} THEN NoMatch ELSE RE_ACTIVE_At(s, Min(hits))

\* \(Expires on\s+(\w{3})\s+(\d+)(?:st|nd|rd|th),\s+(\d{4})\)
RE_EXPIRES_At(s, i) ==
    LET j == i + Len("(Expires on")
        m == j + RunLen(s, j, Space)
        d == m + 3 + RunLen(s, m + 3, Space)
        x == d + RunLen(s, d, Digit)
        y == x + 3 + RunLen(s, x + 3, Space)
    IN  IF /\ StartsAt(s, i, "(Expires on")
           /\ m > j
           /\ RunLen(s, m, Word) = 3
           /\ d > m + 3
           /\ x > d
           /\ Slice(s, x, x + 2) \in {"st", "nd", "rd", "th"}
           /\ At(s, x + 2) = ","
           /\ y > x + 3
           /\ RunLen(s, y, Digit) >= 4
           /\ At(s, y + 4) = ")"
        THEN Captures(<<Slice(s, m, m + 3), Slice(s, d, x), Slice(s, y, y + 4)>>)
        ELSE NoMatch

RE_EXPIRES(s) ==
    LET hits == {i \in 1..Len(s) : RE_EXPIRES_At(s, i).matched}
    IN  IF hits = {} THEN NoMatch ELSE RE_EXPIRES_At(s, Min(hits))

\* format!("{:02}", text): a string is padded to the width with spaces on its
\* right; the 0 flag pads numbers only.
Pad02(text) == IF Len(text) < 2 THEN text \o " " ELSE text

\* format!("{}-{:02}-{}", month, day, year)
FormatDate(month, day, year) == month \o "-" \o Pad02(day) \o "-" \o year

MonthNames == <<"jan", "feb", "mar", "apr", "may", "jun",
                "jul", "aug", "sep", "oct", "nov", "dec">>

IsLeapYear(y) == (y % 4 = 0 /\ y % 100 # 0) \/ y % 400 = 0

DaysInMonth(y, m) ==
    IF m = 2 THEN (IF IsLeapYear(y) THEN 29 ELSE 28)
    ELSE IF m \in {4, 6, 9, 11} THEN 30 ELSE 31

BadDate == [ok |-> FALSE, year |-> 0, month |-> 0, day |-> 0]

\* NaiveDate::parse_from_str(text, "%b-%d-%Y"): the month's three-letter name in
\* any case, the literal "-", the day (white space skipped, then one or two
\* digits), the literal "-", the year (white space skipped, then up to four
\* digits), and nothing after it; then the date must exist.
NaiveDate_parse_from_str(text) ==
    LET mon == ToLower(Slice(text, 1, 4))
        d == 5 + RunLen(text, 5, Space)
        nd == IF RunLen(text, d, Digit) > 2 THEN 2 ELSE RunLen(text, d, Digit)
        y == d + nd + 1 + RunLen(text, d + nd + 1, Space)
        ny == IF RunLen(text, y, Digit) > 4 THEN 4 ELSE RunLen(text, y, Digit)
    IN  IF /\ \E k \in 1..12 : MonthNames[k] = mon
           /\ At(text, 4) = "-"
           /\ nd >= 1
           /\ At(text, d + nd) = "-"
           /\ ny >= 1
           /\ y + ny = Len(text) + 1
        THEN LET month == CHOOSE k \in 1..12 : MonthNames[k] = mon
                 day == DecimalValue(Slice(text, d, d + nd))
                 year == DecimalValue(Slice(text, y, y + ny))
             IN  IF 1 <= day /\ day <= DaysInMonth(year, month)
                 THEN [ok |-> TRUE, year |-> year, month |-> month, day |-> day]
                 ELSE BadDate
        ELSE BadDate

\* account with the date's parse error reported as BadOutput.
account_date_error_as_bad_output(proc) ==
    LET c == command(<<"nordvpn", "account">>, proc)
        stdout == c.stdout
        email == RE_EMAIL(stdout)
        active == RE_ACTIVE(stdout)
        expires == RE_EXPIRES(stdout)
        date == NaiveDate_parse_from_str(
                    FormatDate(expires.caps[1], expires.caps[2], expires.caps[3]))
    IN  IF c.ret.tag = "Err" THEN Return(c, c.ret)
        ELSE IF Contains(stdout, "You are not logged in.") THEN Return(c, Ok(None))
        ELSE IF ~c.success THEN Return(c, ErrCommand("FailedCommand", c.command))
        ELSE IF ~(email.matched /\ active.matched /\ expires.matched /\ date.ok)
        THEN Return(c, ErrCommand("BadOutput", c.command))
        ELSE Return(c, Ok(Some([email |-> email.caps[1],
                                active |-> active.caps[1] = "Active",
                                expires |-> [year |-> date.year, month |-> date.month,
                                             day |-> date.day]])))

account(proc) ==
    LET c == command(<<"nordvpn", "account">>, proc)
        stdout == c.stdout
        email == RE_EMAIL(stdout)
        active == RE_ACTIVE(stdout)
        expires == RE_EXPIRES(stdout)
        date == NaiveDate_parse_from_str(
                    FormatDate(expires.caps[1], expires.caps[2], expires.caps[3]))
    IN  IF c.ret.tag = "Err" THEN Return(c, c.ret)
        ELSE IF Contains(stdout, "You are not logged in.") THEN Return(c, Ok(None))
        ELSE IF ~c.success THEN Return(c, ErrCommand("FailedCommand", c.command))
        ELSE IF ~email.matched THEN Return(c, ErrCommand("BadOutput", c.command))
        ELSE IF ~active.matched THEN Return(c, ErrCommand("BadOutput", c.command))
        ELSE IF ~expires.matched THEN Return(c, ErrCommand("BadOutput", c.command))
        ELSE IF ~date.ok THEN Return(c, ErrFrom("BadDateFormat"))
        ELSE Return(c, Ok(Some([email |-> email.caps[1],
                                active |-> active.caps[1] = "Active",
                                expires |-> [year |-> date.year, month |-> date.month,
                                             day |-> date.day]])))

(***************************************************************************)
(* parse_list and the list operations (cities, countries, groups)          *)
(***************************************************************************)
\* RE.captures_iter(text) for (\w+)(?:,\s*|\s*$): the successive matches that do
\* not overlap, from position i on.  A word is a match when a comma follows it
\* (the white space after the comma is consumed) or when only white space
\* separates it from the end of the text; no suffix of a word that is not a
\* match is one, so the search resumes after the word.
RECURSIVE captures_iter(_, _)
captures_iter(text, i) ==
    IF i > Len(text) THEN <<>>
    ELSE IF At(text, i) \in Word
    THEN LET e == i + RunLen(text, i, Word)
         IN  IF At(text, e) = ","
             THEN <<Slice(text, i, e)>>
                  \o captures_iter(text, e + 1 + RunLen(text, e + 1, Space))
             ELSE IF SpaceToEnd(text, e)
             THEN <<Slice(text, i, e)>>
             ELSE captures_iter(text, e)
    ELSE captures_iter(text, i + 1)

\* parse_list without the peek: an empty list for a text without a match.
parse_list_without_peek(text) == Some(captures_iter(text, 1))

\* captures.peek()? returns None when the iterator is empty.
parse_list(text) ==
    LET items == captures_iter(text, 1)
    IN  IF Len(items) = 0 THEN None ELSE Some(items)

\* The body the three list operations share.
list_operation(run, proc) ==
    LET c == command(run, proc)
        list == parse_list(c.stdout)
    IN  IF c.ret.tag = "Err" THEN Return(c, c.ret)
        ELSE IF ~c.success THEN Return(c, ErrCommand("FailedCommand", c.command))
        ELSE IF ~list.some THEN Return(c, ErrCommand("BadOutput", c.command))
        ELSE Return(c, Ok(list.val))

cities(country, proc) == list_operation(<<"nordvpn", "cities", country>>, proc)

countries(proc) == list_operation(<<"nordvpn", "countries">>, proc)

groups(proc) == list_operation(<<"nordvpn", "groups">>, proc)

(***************************************************************************)
(* connect                                                                 *)
(***************************************************************************)
\* A ConnectOption is [variant |-> name, payload |-> <<strings>>].
ConnectOption(variant, payload) == [variant |-> variant, payload |-> payload]

\* connect_run with the two pushes of CountryCity in the other order.
connect_run_city_first(option) ==
    LET run == <<"nordvpn", "connect">>
    IN  IF option.variant = "CountryCity"
        THEN Append(Append(run, option.payload[2]), option.payload[1])
        ELSE Append(run, option.payload[1])

\* The `run` vector: "nordvpn", "connect", then what the match on the
\* option pushes.
connect_run(option) ==
    LET run == <<"nordvpn", "connect">>
    IN  CASE option.variant = "Country" -> Append(run, option.payload[1])
          [] option.variant = "Server" -> Append(run, option.payload[1])
          [] option.variant = "CountryCode" -> Append(run, option.payload[1])
          [] option.variant = "City" -> Append(run, option.payload[1])
          [] option.variant = "Group" -> Append(run, option.payload[1])
          [] option.variant = "CountryCity" ->
                Append(Append(run, option.payload[1]), option.payload[2])

\* A run of digits without its leading zeros ("0" for zero): the number it
\* writes, kept as text because a u32 does not fit the model checker's integers.
RECURSIVE Numeral(_)
Numeral(d) == IF Len(d) > 1 /\ At(d, 1) = "0" THEN Numeral(SubSeq(d, 2, Len(d))) ELSE d

\* Whether numeral a is at most numeral b, both of the same length.
RECURSIVE NumeralLeq(_, _)
NumeralLeq(a, b) ==
    IF Len(a) = 0 THEN TRUE
    ELSE IF At(a, 1) = At(b, 1) THEN NumeralLeq(SubSeq(a, 2, Len(a)), SubSeq(b, 2, Len(b)))
    ELSE DecimalValue(At(a, 1)) < DecimalValue(At(b, 1))

\* u32::MAX, as a numeral
U32Max == "4294967295"

\* str::parse::<u32>() of a run of digits succeeds iff the number fits.
FitsU32(d) ==
    LET n == Numeral(d)
    IN  Len(n) < Len(U32Max) \/ (Len(n) = Len(U32Max) /\ NumeralLeq(n, U32Max))

\* You are connected to\s+([\w ]+)\s+#(\d+)\s+\(([\w\d\.]+)\)!
\* From position p (after the country) on: \s+#(\d+)\s+\(([\w\d\.]+)\)!
RE_CONNECT_Tail(s, p) ==
    LET h == p + RunLen(s, p, Space)
        n == h + 1 + RunLen(s, h + 1, Digit)
        o == n + RunLen(s, n, Space)
        z == o + 1 + RunLen(s, o + 1, HostChar)
    IN  IF /\ h > p
           /\ At(s, h) = "#"
           /\ n > h + 1
           /\ o > n
           /\ At(s, o) = "("
           /\ z > o + 1
           /\ StartsAt(s, z, ")!")
        THEN Captures(<<Slice(s, h + 1, n), Slice(s, o + 1, z)>>)
        ELSE NoMatch

RE_CONNECT_At(s, i) ==
    LET j == i + Len("You are connected to")
        \* the lengths [\w ]+ may take after a \s+ of length k, the longest first
        ends(k) == {d \in 1..RunLen(s, j + k, WordOrBlank) :
                        RE_CONNECT_Tail(s, j + k + d).matched}
        K == {k \in 1..RunLen(s, j, Space) : ends(k) # {}}
    IN  IF StartsAt(s, i, "You are connected to") /\ K # {}
        THEN LET p == j + Max(K)
                 e == p + Max(ends(Max(K)))
             IN  Captures(<<Slice(s, p, e)>> \o RE_CONNECT_Tail(s, e).caps)
        ELSE NoMatch

RE_CONNECT(s) ==
    LET hits == {i \in 1..Len(s) : RE_CONNECT_At(s, i).matched}
    IN  IF hits = {} THEN NoMatch ELSE RE_CONNECT_At(s, Min(hits))

\* connect with the pattern looked for before the exit status.
connect_pattern_first(option, proc) ==
    LET c == command(connect_run(option), proc)
        captures == RE_CONNECT(c.stdout)
    IN  IF c.ret.tag = "Err" THEN Return(c, c.ret)
        ELSE IF ~captures.matched THEN Return(c, ErrCommand("BadOutput", c.command))
        ELSE IF ~c.success THEN Return(c, ErrCommand("FailedCommand", c.command))
        ELSE IF ~FitsU32(captures.caps[2]) THEN Return(c, Panic)
        ELSE Return(c, Ok([country |-> captures.caps[1],
                           server |-> Numeral(captures.caps[2]),
                           hostname |-> captures.caps[3]]))

connect(option, proc) ==
    LET c == command(connect_run(option), proc)
        captures == RE_CONNECT(c.stdout)
    IN  IF c.ret.tag = "Err" THEN Return(c, c.ret)
        ELSE IF ~c.success THEN Return(c, ErrCommand("FailedCommand", c.command))
        ELSE IF ~captures.matched THEN Return(c, ErrCommand("BadOutput", c.command))
        \* captures.get(2).unwrap().as_str().parse::<u32>().unwrap()
        ELSE IF ~FitsU32(captures.caps[2]) THEN Return(c, Panic)
        ELSE Return(c, Ok([country |-> captures.caps[1],
                           server |-> Numeral(captures.caps[2]),
                           hostname |-> captures.caps[3]]))

(***************************************************************************)
(* disconnect, login, logout                                               *)
(***************************************************************************)
disconnect(proc) ==
    LET c == command(<<"nordvpn", "disconnect">>, proc)
    IN  IF c.ret.tag = "Err" THEN Return(c, c.ret)
        ELSE IF ~c.success THEN Return(c, ErrCommand("FailedCommand", c.command))
        ELSE IF Contains(c.stdout, "You are not connected to NordVPN.")
        THEN Return(c, Ok(FALSE))
        ELSE IF Contains(c.stdout, "You are disconnected from NordVPN.")
        THEN Return(c, Ok(TRUE))
        ELSE Return(c, ErrCommand("BadOutput", c.command))

\* Continue in the browser:\s+(.+)\s*$
RE_LOGIN_At(s, i) ==
    LET j == i + Len("Continue in the browser:")
        ends(k) == {d \in 1..RunLen(s, j + k, Dot) : SpaceToEnd(s, j + k + d)}
        K == {k \in 1..RunLen(s, j, Space) : ends(k) # {}}
    IN  IF StartsAt(s, i, "Continue in the browser:") /\ K # {}
        THEN LET p == j + Max(K)
             IN  Captures(<<Slice(s, p, p + Max(ends(Max(K))))>>)
        ELSE NoMatch

RE_LOGIN(s) ==
    LET hits == {i \in 1..Len(s) : RE_LOGIN_At(s, i).matched}
    IN  IF hits = {} THEN NoMatch ELSE RE_LOGIN_At(s, Min(hits))

login(proc) ==
    LET c == command(<<"nordvpn", "login">>, proc)
        captures == RE_LOGIN(c.stdout)
    IN  IF c.ret.tag = "Err" THEN Return(c, c.ret)
        ELSE IF Contains(c.stdout, "You are already logged in.") THEN Return(c, Ok(None))
        ELSE IF ~c.success THEN Return(c, ErrCommand("FailedCommand", c.command))
        ELSE IF ~captures.matched THEN Return(c, ErrCommand("BadOutput", c.command))
        ELSE Return(c, Ok(Some(captures.caps[1])))

logout(proc) ==
    LET c == command(<<"nordvpn", "logout">>, proc)
    IN  IF c.ret.tag = "Err" THEN Return(c, c.ret)
        ELSE IF Contains(c.stdout, "You are not logged in.") THEN Return(c, Ok(FALSE))
        ELSE IF Contains(c.stdout, "You are logged out.") THEN Return(c, Ok(TRUE))
        ELSE IF ~c.success THEN Return(c, ErrCommand("FailedCommand", c.command))
        ELSE Return(c, ErrCommand("BadOutput", c.command))

(***************************************************************************)
(* status                                                                  *)
(***************************************************************************)
\* Current server:\s+([\w\d\.]+)
RE_HOSTNAME_At(s, i) ==
    LET j == i + Len("Current server:")
        p == j + RunLen(s, j, Space)
        e == p + RunLen(s, p, HostChar)
    IN  IF StartsAt(s, i, "Current server:") /\ p > j /\ e > p
        THEN Captures(<<Slice(s, p, e)>>)
        ELSE NoMatch

RE_HOSTNAME(s) ==
    LET hits == {i \in 1..Len(s) : RE_HOSTNAME_At(s, i).matched}
    IN  IF hits = {} THEN NoMatch ELSE RE_HOSTNAME_At(s, Min(hits))

\* <label>\s+([\w ]+), for the labels "Country:" and "City:".  \s+ is greedy
\* and gives characters back until a word character or a blank follows it.
RE_PLACE_At(s, i, label) ==
    LET j == i + Len(label)
        K == {k \in 1..RunLen(s, j, Space) : RunLen(s, j + k, WordOrBlank) >= 1}
    IN  IF StartsAt(s, i, label) /\ K # {}
        THEN LET p == j + Max(K)
             IN  Captures(<<Slice(s, p, p + RunLen(s, p, WordOrBlank))>>)
        ELSE NoMatch

\* Country:\s+([\w ]+)
RE_COUNTRY(s) ==
    LET hits == {i \in 1..Len(s) : RE_PLACE_At(s, i, "Country:").matched}
    IN  IF hits = {} THEN NoMatch ELSE RE_PLACE_At(s, Min(hits), "Country:")

\* City:\s+([\w ]+)
RE_CITY(s) ==
    LET hits == {i \in 1..Len(s) : RE_PLACE_At(s, i, "City:").matched}
    IN  IF hits = {} THEN NoMatch ELSE RE_PLACE_At(s, Min(hits), "City:")

\* (?:[\da-fA-F]{0,4}:){n,7} from position p, n iterations done: the position
\* after the last iteration the greedy repetition makes.
RECURSIVE Ipv6Groups(_, _, _)
Ipv6Groups(s, p, n) ==
    LET h == RunLen(s, p, Hex)
    IN  IF n < 7 /\ h <= 4 /\ At(s, p + h) = ":"
        THEN Ipv6Groups(s, p + h + 1, n + 1)
        ELSE p

\* (?:[\da-fA-F]{0,4}:){1,7}[\da-fA-F]{0,4} at position p: the end of the match,
\* 0 when there is none.
Ipv6End(s, p) ==
    LET g == Ipv6Groups(s, p, 0)
        h == RunLen(s, g, Hex)
    IN  IF g = p THEN 0 ELSE g + (IF h > 4 THEN 4 ELSE h)

\* (?:\d{1,3}\.){n,3} from position p, n iterations done: the position after the
\* third iteration, 0 when an iteration fails.
RECURSIVE Ipv4Octets(_, _, _)
Ipv4Octets(s, p, n) ==
    LET d == RunLen(s, p, Digit)
    IN  IF n = 3 THEN p
        ELSE IF 1 <= d /\ d <= 3 /\ At(s, p + d) = "."
        THEN Ipv4Octets(s, p + d + 1, n + 1)
        ELSE 0

\* (?:\d{1,3}\.){3}\d{1,3} at position p: the end of the match, 0 when none.
Ipv4End(s, p) ==
    LET g == Ipv4Octets(s, p, 0)
        d == RunLen(s, g, Digit)
    IN  IF g = 0 \/ d = 0 THEN 0 ELSE g + (IF d > 3 THEN 3 ELSE d)

\* Server IP:\s+((?:[\da-fA-F]{0,4}:){1,7}[\da-fA-F]{0,4}|(?:\d{1,3}\.){3}\d{1,3})
\* The first alternative is preferred.
RE_IP_At(s, i) ==
    LET j == i + Len("Server IP:")
        p == j + RunLen(s, j, Space)
        e == IF Ipv6End(s, p) # 0 THEN Ipv6End(s, p) ELSE Ipv4End(s, p)
    IN  IF StartsAt(s, i, "Server IP:") /\ p > j /\ e # 0
        THEN Captures(<<Slice(s, p, e)>>)
        ELSE NoMatch

RE_IP(s) ==
    LET hits == {i \in 1..Len(s) : RE_IP_At(s, i).matched}
    IN  IF hits = {} THEN NoMatch ELSE RE_IP_At(s, Min(hits))

\* The parts of a text between the separator characters sep.
RECURSIVE Split(_, _)
Split(t, sep) ==
    LET n == RunLen(t, 1, (Word \cup Punct \cup Space) \ {sep})
    IN  IF n = Len(t) THEN <<t>>
        ELSE <<SubSeq(t, 1, n)>> \o Split(SubSeq(t, n + 2, Len(t)), sep)

\* Ipv4Addr::from_str: four decimal octets of one to three digits, at most 255,
\* written without a leading zero.
ParsesAsIpv4(t) ==
    LET parts == Split(t, ".")
    IN  /\ Len(parts) = 4
        /\ \A k \in 1..4 :
              /\ Len(parts[k]) \in 1..3
              /\ RunLen(parts[k], 1, Digit) = Len(parts[k])
              /\ Numeral(parts[k]) = parts[k]
              /\ DecimalValue(parts[k]) <= 255

\* A list of groups of one to four hexadecimal digits separated by ":".
IsGroupList(t) ==
    \A k \in 1..Len(Split(t, ":")) :
        /\ Len(Split(t, ":")[k]) \in 1..4
        /\ RunLen(Split(t, ":")[k], 1, Hex) = Len(Split(t, ":")[k])

GroupCount(t) == IF t = "" THEN 0 ELSE Len(Split(t, ":"))

\* Ipv6Addr::from_str: eight groups, or fewer groups around a single "::" that
\* stands for at least one group.
ParsesAsIpv6(t) ==
    LET gaps == {i \in 1..Len(t) : StartsAt(t, i, "::")}
    IN  IF gaps = {} THEN IsGroupList(t) /\ GroupCount(t) = 8
        ELSE /\ Cardinality(gaps) = 1
             /\ LET i == Min(gaps)
                    head == Slice(t, 1, i)
                    tail == SubSeq(t, i + 2, Len(t))
                IN  /\ head = "" \/ IsGroupList(head)
                    /\ tail = "" \/ IsGroupList(tail)
                    /\ GroupCount(head) + GroupCount(tail) <= 7

\* str::parse::<IpAddr>()
ParsesAsIpAddr(t) == ParsesAsIpv4(t) \/ ParsesAsIpv6(t)

\* <label>\s+((?i:a|b)): the first alternative that stands there, in any case.
RE_CHOICE_At(s, i, label, alternatives) ==
    LET j == i + Len(label)
        p == j + RunLen(s, j, Space)
        found == {k \in 1..Len(alternatives) :
                      ToLower(Slice(s, p, p + Len(alternatives[k]))) = ToLower(alternatives[k])}
    IN  IF StartsAt(s, i, label) /\ p > j /\ found # {}
        THEN Captures(<<Slice(s, p, p + Len(alternatives[Min(found)]))>>)
        ELSE NoMatch

\* Current technology:\s+((?i:OPENVPN|NORDLYNX))
RE_TECHNOLOGY(s) ==
    LET at(i) == RE_CHOICE_At(s, i, "Current technology:", <<"OPENVPN", "NORDLYNX">>)
        hits == {i \in 1..Len(s) : at(i).matched}
    IN  IF hits = {} THEN NoMatch ELSE at(Min(hits))

\* Current technology:\s+((?i:TCP|UDP))
RE_PROTOCOL(s) ==
    LET at(i) == RE_CHOICE_At(s, i, "Current technology:", <<"TCP", "UDP">>)
        hits == {i \in 1..Len(s) : at(i).matched}
    IN  IF hits = {} THEN NoMatch ELSE at(Min(hits))

\* str::parse::<Technology>(): strum, upper-case names compared in any case
Technology_from_str(t) ==
    IF ToLower(t) = "openvpn" THEN "OpenVpn"
    ELSE IF ToLower(t) = "nordlynx" THEN "NordLynx" ELSE "Err"

\* str::parse::<Protocol>()
Protocol_from_str(t) ==
    IF ToLower(t) = "tcp" THEN "Tcp" ELSE IF ToLower(t) = "udp" THEN "Udp" ELSE "Err"

\* ([\d.]+\s+[a-zA-Z]+) at position p: the end of the match, 0 when none.
QuantityEnd(s, p) ==
    LET n == p + RunLen(s, p, NumChar)
        u == n + RunLen(s, n, Space)
        e == u + RunLen(s, u, Alpha)
    IN  IF n > p /\ u > n /\ e > u THEN e ELSE 0

\* Transfer:\s+([\d.]+\s+[a-zA-Z]+)\s+received,\s+([\d.]+\s+[a-zA-Z]+)\s+sent
RE_TRANSFER_At(s, i) ==
    LET j == i + Len("Transfer:")
        p == j + RunLen(s, j, Space)
        e == QuantityEnd(s, p)
        r == e + RunLen(s, e, Space)
        q == r + Len("received,")
        p2 == q + RunLen(s, q, Space)
        e2 == QuantityEnd(s, p2)
        t == e2 + RunLen(s, e2, Space)
    IN  IF /\ StartsAt(s, i, "Transfer:")
           /\ p > j
           /\ e # 0
           /\ r > e
           /\ StartsAt(s, r, "received,")
           /\ p2 > q
           /\ e2 # 0
           /\ t > e2
           /\ StartsAt(s, t, "sent")
        THEN Captures(<<Slice(s, p, e), Slice(s, p2, e2)>>)
        ELSE NoMatch

RE_TRANSFER(s) ==
    LET hits == {i \in 1..Len(s) : RE_TRANSFER_At(s, i).matched}
    IN  IF hits = {} THEN NoMatch ELSE RE_TRANSFER_At(s, Min(hits))

\* The units byte_unit knows, in lower case.
ByteUnits == {"b", "kb", "kib", "mb", "mib", "gb", "gib", "tb", "tib", "pb", "pib"}

\* Byte::from_str on a captured quantity: digits, at most one "." with digits on
\* both sides, white space, a known unit.  The value is kept as written.
Byte_from_str(t) ==
    LET n == RunLen(t, 1, NumChar)
        number == Slice(t, 1, n + 1)
        unit == SubSeq(t, n + 1 + RunLen(t, n + 1, Space), Len(t))
        parts == Split(number, ".")
    IN  IF /\ Len(parts) <= 2
           /\ \A k \in 1..Len(parts) : Len(parts[k]) >= 1
           /\ ToLower(unit) \in ByteUnits
        THEN [ok |-> TRUE, number |-> number, unit |-> unit]
        ELSE [ok |-> FALSE, number |-> "", unit |-> ""]

\* (?:(?P<name>\d+)\s+<unit>s?\s*)? at position p: whether the group took part in
\* the match, its digits, and where the match goes on.
UptimeGroup(s, p, unit) ==
    LET w == p + RunLen(s, p, Digit)
        u == w + RunLen(s, w, Space)
        e == u + Len(unit) + (IF At(s, u + Len(unit)) = "s" THEN 1 ELSE 0)
    IN  IF w > p /\ u > w /\ StartsAt(s, u, unit)
        THEN [present |-> TRUE, digits |-> Slice(s, p, w), next |-> e + RunLen(s, e, Space)]
        ELSE [present |-> FALSE, digits |-> "", next |-> p]

\* Uptime:\s+(?:(?P<years>\d+)\s+years?\s*)?(?:(?P<months>\d+)\s+months?\s*)?
\* (?:(?P<days>\d+)\s+days?\s*)?(?:(?P<hours>\d+)\s+hours?\s*)?
\* (?:(?P<minutes>\d+)\s+minutes?\s*)?(?:(?P<seconds>\d+)\s+seconds?\s*)?
RE_UPTIME_At(s, i) ==
    LET j == i + Len("Uptime:")
        p == j + RunLen(s, j, Space)
        years == UptimeGroup(s, p, "year")
        months == UptimeGroup(s, years.next, "month")
        days == UptimeGroup(s, months.next, "day")
        hours == UptimeGroup(s, days.next, "hour")
        minutes == UptimeGroup(s, hours.next, "minute")
        seconds == UptimeGroup(s, minutes.next, "second")
    IN  IF StartsAt(s, i, "Uptime:") /\ p > j
        THEN Captures([years |-> years, months |-> months, days |-> days,
                       hours |-> hours, minutes |-> minutes, seconds |-> seconds])
        ELSE NoMatch

RE_UPTIME(s) ==
    LET hits == {i \in 1..Len(s) : RE_UPTIME_At(s, i).matched}
    IN  IF hits = {} THEN NoMatch ELSE RE_UPTIME_At(s, Min(hits))

\* captures.name(..).map_or(0_f64, |value| value.as_str().parse::<f64>().unwrap())
GroupValue(group) == IF group.present THEN DecimalValue(group.digits) ELSE 0

\* 2.628_f64 * 10_f64.powi(6)
SecondsPerMonth == 2628000

\* 3.154_f64 * 10_f64.powi(7)
SecondsPerYear == 31540000

\* seconds + minutes * 60 + hours * 3600 + days * 86400 + months * .. + years * ..
UptimeSeconds(named) ==
    GroupValue(named.seconds)
    + GroupValue(named.minutes) * 60
    + GroupValue(named.hours) * 3600
    + GroupValue(named.days) * 86400
    + GroupValue(named.months) * SecondsPerMonth
    + GroupValue(named.years) * SecondsPerYear

\* A chrono Duration: whole seconds and the milliseconds left over.
\* Duration::milliseconds((100_f64 * total).round() as i64): the operands are
\* whole numbers, so rounding changes nothing, and 100 * total milliseconds are
\* total div 10 seconds and 100 * (total mod 10) milliseconds (the product is
\* not formed: it leaves the model checker's 32-bit integers).
UptimeDuration(total) == [secs |-> total \div 10, millis |-> 100 * (total % 10)]

status(proc) ==
    LET c == command(<<"nordvpn", "status">>, proc)
        stdout == c.stdout
        hostname == RE_HOSTNAME(stdout)
        country == RE_COUNTRY(stdout)
        city == RE_CITY(stdout)
        ip == RE_IP(stdout)
        technology == RE_TECHNOLOGY(stdout)
        protocol == RE_PROTOCOL(stdout)
        transfer == RE_TRANSFER(stdout)
        uptime == RE_UPTIME(stdout)
        BadOutput == Return(c, ErrCommand("BadOutput", c.command))
    IN  IF c.ret.tag = "Err" THEN Return(c, c.ret)
        ELSE IF Contains(stdout, "Disconnected") THEN Return(c, Ok(None))
        ELSE IF ~c.success THEN Return(c, ErrCommand("FailedCommand", c.command))
        ELSE IF ~hostname.matched THEN BadOutput
        ELSE IF ~country.matched THEN BadOutput
        ELSE IF ~city.matched THEN BadOutput
        ELSE IF ~ip.matched THEN BadOutput
        \* captures.get(1).unwrap().as_str().parse::<IpAddr>().unwrap()
        ELSE IF ~ParsesAsIpAddr(ip.caps[1]) THEN Return(c, Panic)
        ELSE IF ~technology.matched THEN BadOutput
        ELSE IF Technology_from_str(technology.caps[1]) = "Err" THEN Return(c, Panic)
        ELSE IF ~protocol.matched THEN BadOutput
        ELSE IF Protocol_from_str(protocol.caps[1]) = "Err" THEN Return(c, Panic)
        ELSE IF ~transfer.matched THEN BadOutput
        \* Byte::from_str(..).unwrap(), twice
        ELSE IF ~Byte_from_str(transfer.caps[1]).ok THEN Return(c, Panic)
        ELSE IF ~Byte_from_str(transfer.caps[2]).ok THEN Return(c, Panic)
        ELSE IF ~uptime.matched THEN BadOutput
        ELSE Return(c, Ok(Some(
                [hostname |-> hostname.caps[1],
                 country |-> country.caps[1],
                 city |-> city.caps[1],
                 ip |-> ip.caps[1],
                 technology |-> Technology_from_str(technology.caps[1]),
                 protocol |-> Protocol_from_str(protocol.caps[1]),
                 transfer |-> [recieved |-> Byte_from_str(transfer.caps[1]),
                               sent |-> Byte_from_str(transfer.caps[2])],
                 uptime |-> UptimeDuration(UptimeSeconds(uptime.caps))])))

(***************************************************************************)
(* version                                                                 *)
(***************************************************************************)
\* (\d+\.\d+.\d+)\s+$  The second separator is any character but the line feed;
\* the second \d+ is greedy and gives digits back to it.
RE_VERSION_At(s, i) ==
    LET a == i + RunLen(s, i, Digit)
        end(b) == LET q == a + 1 + b
                      e == q + 1 + RunLen(s, q + 1, Digit)
                  IN  IF /\ At(s, q) \in Dot
                         /\ e > q + 1
                         /\ RunLen(s, e, Space) >= 1
                         /\ SpaceToEnd(s, e)
                      THEN e ELSE 0
        B == {b \in 1..RunLen(s, a + 1, Digit) : end(b) # 0}
    IN  IF a > i /\ At(s, a) = "." /\ B # {}
        THEN Captures(<<Slice(s, i, end(Max(B)))>>)
        ELSE NoMatch

RE_VERSION(s) ==
    LET hits == {i \in 1..Len(s) : RE_VERSION_At(s, i).matched}
    IN  IF hits = {} THEN NoMatch ELSE RE_VERSION_At(s, Min(hits))

\* semver Version::parse on a captured text (digits, ".", digits, one character,
\* digits): three numbers separated by "." and written without leading zeros.
Version_parse(t) ==
    LET parts == Split(t, ".")
    IN  IF /\ Len(parts) = 3
           /\ \A k \in 1..3 :
                 /\ Len(parts[k]) >= 1
                 /\ RunLen(parts[k], 1, Digit) = Len(parts[k])
                 /\ Numeral(parts[k]) = parts[k]
        THEN [ok |-> TRUE, major |-> DecimalValue(parts[1]),
              minor |-> DecimalValue(parts[2]), patch |-> DecimalValue(parts[3])]
        ELSE [ok |-> FALSE, major |-> 0, minor |-> 0, patch |-> 0]

version(proc) ==
    LET c == command(<<"nordvpn", "version">>, proc)
        captures == RE_VERSION(c.stdout)
        parsed == Version_parse(captures.caps[1])
    IN  IF c.ret.tag = "Err" THEN Return(c, c.ret)
        ELSE IF ~c.success THEN Return(c, ErrCommand("FailedCommand", c.command))
        ELSE IF ~captures.matched THEN Return(c, ErrCommand("BadOutput", c.command))
        ELSE IF ~parsed.ok THEN Return(c, ErrFrom("BadVersion"))
        ELSE Return(c, Ok([major |-> parsed.major, minor |-> parsed.minor,
                           patch |-> parsed.patch]))

(***************************************************************************)
(* build_helpers::gresources: the File, GResource and GResources elements  *)
(* of a GResource description, read from and written to XML text.  The     *)
(* types and their reader and writer are not among the source files; they  *)
(* are modelled from the round-trip law of the specification, with the     *)
(* element and attribute names the fixtures of gresources_tests.rs use.    *)
(***************************************************************************)
XmlNameChar == Alpha \cup Digit \cup {"-", "_", ":"}

\* The number of characters of s from position i up to the first one in stop.
RECURSIVE RunUntil(_, _, _)
RunUntil(s, i, stop) ==
    IF i <= Len(s) /\ At(s, i) \notin stop THEN 1 + RunUntil(s, i + 1, stop) ELSE 0

\* The texts of a sequence from its k-th on, one after the other.
RECURSIVE ConcatFrom(_, _)
ConcatFrom(texts, k) ==
    IF k > Len(texts) THEN "" ELSE texts[k] \o ConcatFrom(texts, k + 1)

Concat(texts) == ConcatFrom(texts, 1)

XmlEntities ==
    <<<<"&", "&amp;">>, <<"<", "&lt;">>, <<">", "&gt;">>,
      <<"\"", "&quot;">>, <<"'", "&apos;">>>>

\* The entities that stand in text at position i (one at most).
EntitiesAt(text, i) ==
    {k \in 1..Len(XmlEntities) : StartsAt(text, i, XmlEntities[k][2])}

\* Character data as written: the five special characters become entities.
RECURSIVE xml_escape_from(_, _)
xml_escape_from(text, i) ==
    IF i > Len(text) THEN ""
    ELSE LET hits == {k \in 1..Len(XmlEntities) : XmlEntities[k][1] = At(text, i)}
         IN  (IF hits = {} THEN At(text, i) ELSE XmlEntities[Min(hits)][2])
             \o xml_escape_from(text, i + 1)

xml_escape(text) == xml_escape_from(text, 1)

\* Character data as read: entities become their characters.
RECURSIVE xml_unescape_from(_, _)
xml_unescape_from(text, i) ==
    IF i > Len(text) THEN ""
    ELSE IF EntitiesAt(text, i) = {}
    THEN At(text, i) \o xml_unescape_from(text, i + 1)
    ELSE XmlEntities[Min(EntitiesAt(text, i))][1]
         \o xml_unescape_from(text, i + Len(XmlEntities[Min(EntitiesAt(text, i))][2]))

\* An "&" that starts no entity makes the text unreadable.
xml_unescape(text) ==
    IF \A i \in 1..Len(text) : At(text, i) = "&" => EntitiesAt(text, i) # {}
    THEN [ok |-> TRUE, text |-> xml_unescape_from(text, 1)]
    ELSE [ok |-> FALSE, text |-> ""]

XmlOk(v) == [ok |-> TRUE, value |-> v]

XmlError == [ok |-> FALSE, value |-> <<>>]

\* What reading an element from a position gives: the value and the position
\* after the element, or an error.
XmlRead(v, pos) == [ok |-> TRUE, value |-> v, pos |-> pos]

XmlReadError == [ok |-> FALSE, value |-> <<>>, pos |-> 0]

\* Body applied to the value of an expression, which is computed once.
Bind(value, Body(_)) == CHOOSE out \in {Body(v) : v \in {value}} : TRUE

NoAttributes == [ok |-> FALSE, attrs |-> <<>>, empty |-> FALSE, pos |-> 0]

\* The attributes of a start tag from position p (after the element's name) to
\* its ">" or "/>": name="value" pairs, each after white space.
RECURSIVE read_attributes(_, _)
read_attributes(s, p) ==
    Bind(p + RunLen(s, p, Space), LAMBDA q :
        IF At(s, q) = ">"
        THEN [ok |-> TRUE, attrs |-> <<>>, empty |-> FALSE, pos |-> q + 1]
        ELSE IF StartsAt(s, q, "/>")
        THEN [ok |-> TRUE, attrs |-> <<>>, empty |-> TRUE, pos |-> q + 2]
        ELSE
    Bind(RunLen(s, q, XmlNameChar), LAMBDA n :
    Bind(RunUntil(s, q + n + 2, {"\"", "<"}), LAMBDA m :
    Bind(xml_unescape(Slice(s, q + n + 2, q + n + 2 + m)), LAMBDA value :
        IF \/ q = p
           \/ n = 0
           \/ ~StartsAt(s, q + n, "=\"")
           \/ At(s, q + n + 2 + m) # "\""
           \/ ~value.ok
        THEN NoAttributes
        ELSE
    Bind(read_attributes(s, q + n + 2 + m + 1), LAMBDA rest :
        IF ~rest.ok THEN NoAttributes
        ELSE [ok |-> TRUE,
              attrs |-> <<<<Slice(s, q, q + n), value.text>>>> \o rest.attrs,
              empty |-> rest.empty, pos |-> rest.pos])))))

\* The value of the attribute `name`, if the start tag has it.
Attribute(attrs, name) ==
    LET hits == {k \in 1..Len(attrs) : attrs[k][1] = name}
    IN  IF hits = {} THEN None ELSE Some(attrs[Min(hits)][2])

\* Preprocess and the names it is written with.
PreprocessNames ==
    <<<<"ToPixData", "to-pixdata">>, <<"XmlStripBlanks", "xml-stripblanks">>>>

Preprocess_to_string(preprocess) ==
    PreprocessNames[CHOOSE k \in 1..Len(PreprocessNames) :
                        PreprocessNames[k][1] = preprocess][2]

Preprocess_from_str(text) ==
    LET hits == {k \in 1..Len(PreprocessNames) : PreprocessNames[k][2] = text}
    IN  [ok |-> hits # {},
         val |-> IF hits = {} THEN "" ELSE PreprocessNames[Min(hits)][1]]

\* A boolean attribute as read.
bool_from_str(text) ==
    [ok |-> text \in {"t", "true", "y", "yes", "on", "1",
                      "f", "false", "n", "no", "off", "0"},
     val |-> text \in {"t", "true", "y", "yes", "on", "1"}]

\* An optional attribute read through a conversion: absent, or present and
\* converted, or an error when the conversion fails.
ReadOption(attrs, name, Parse(_)) ==
    LET given == Attribute(attrs, name)
    IN  IF ~given.some THEN [ok |-> TRUE, option |-> None]
        ELSE LET read == Parse(given.val)
             IN  [ok |-> read.ok, option |-> IF read.ok THEN Some(read.val) ELSE None]

File_new(path, alias, compressed, preprocess) ==
    [path |-> path, alias |-> alias, compressed |-> compressed,
     preprocess |-> preprocess]

GResource_from_iter(prefix, files) == [prefix |-> prefix, files |-> files]

GResources_from_iter(gresources) == [gresources |-> gresources]

\* ' name="value"' for a present attribute, nothing for an absent one.
write_attribute(name, option) ==
    IF option.some THEN " " \o name \o "=\"" \o xml_escape(option.val) \o "\"" ELSE ""

\* File_to_string with the compressed attribute written before the alias.
File_to_string_compressed_first(file) ==
    "<file"
    \o write_attribute("compressed",
           IF file.compressed.some
           THEN Some(IF file.compressed.val THEN "true" ELSE "false") ELSE None)
    \o write_attribute("alias", file.alias)
    \o write_attribute("preprocess",
           IF file.preprocess.some
           THEN Some(Preprocess_to_string(file.preprocess.val)) ELSE None)
    \o ">" \o xml_escape(file.path) \o "</file>"

File_to_string(file) ==
    "<file"
    \o write_attribute("alias", file.alias)
    \o write_attribute("compressed",
           IF file.compressed.some
           THEN Some(IF file.compressed.val THEN "true" ELSE "false") ELSE None)
    \o write_attribute("preprocess",
           IF file.preprocess.some
           THEN Some(Preprocess_to_string(file.preprocess.val)) ELSE None)
    \o ">" \o xml_escape(file.path) \o "</file>"

\* An element with children: its start tag, the children, its end tag; an
\* element without children is written as an empty element.
write_element(name, attributes, children) ==
    IF children = <<>> THEN "<" \o name \o attributes \o "/>"
    ELSE "<" \o name \o attributes \o ">" \o Concat(children)
         \o "</" \o name \o ">"

GResource_to_string(gresource) ==
    write_element("gresource", write_attribute("prefix", Some(gresource.prefix)),
                  [k \in 1..Len(gresource.files) |-> File_to_string(gresource.files[k])])

GResources_to_string(document) ==
    write_element("gresources", "",
                  [k \in 1..Len(document.gresources) |->
                      GResource_to_string(document.gresources[k])])

\* <file ..>path</file> at position p.
File_read(s, p) ==
    IF ~StartsAt(s, p, "<file") THEN XmlReadError
    ELSE
    Bind(read_attributes(s, p + Len("<file")), LAMBDA head :
        IF ~head.ok \/ head.empty THEN XmlReadError
        ELSE
    Bind(head.pos + RunUntil(s, head.pos, {"<"}), LAMBDA close :
    Bind(xml_unescape(Slice(s, head.pos, close)), LAMBDA path :
    Bind(ReadOption(head.attrs, "compressed", bool_from_str), LAMBDA compressed :
    Bind(ReadOption(head.attrs, "preprocess", Preprocess_from_str), LAMBDA preprocess :
        IF \/ ~StartsAt(s, close, "</file>")
           \/ ~path.ok
           \/ ~compressed.ok
           \/ ~preprocess.ok
        THEN XmlReadError
        ELSE XmlRead(File_new(path.text, Attribute(head.attrs, "alias"),
                              compressed.option, preprocess.option),
                     close + Len("</file>")))))))

\* The <file> elements from position p, up to the first text that is not one.
RECURSIVE File_read_all(_, _)
File_read_all(s, p) ==
    IF ~StartsAt(s, p, "<file") THEN XmlRead(<<>>, p)
    ELSE
    Bind(File_read(s, p), LAMBDA first :
        IF ~first.ok THEN XmlReadError
        ELSE
    Bind(File_read_all(s, first.pos), LAMBDA rest :
        IF ~rest.ok THEN XmlReadError
        ELSE XmlRead(<<first.value>> \o rest.value, rest.pos)))

\* <gresource prefix="..">files</gresource> at position p.
GResource_read(s, p) ==
    IF ~StartsAt(s, p, "<gresource") THEN XmlReadError
    ELSE
    Bind(read_attributes(s, p + Len("<gresource")), LAMBDA head :
    Bind(Attribute(head.attrs, "prefix"), LAMBDA prefix :
        IF ~head.ok \/ ~prefix.some THEN XmlReadError
        ELSE IF head.empty THEN XmlRead(GResource_from_iter(prefix.val, <<>>), head.pos)
        ELSE
    Bind(File_read_all(s, head.pos), LAMBDA files :
        IF ~files.ok \/ ~StartsAt(s, files.pos, "</gresource>") THEN XmlReadError
        ELSE XmlRead(GResource_from_iter(prefix.val, files.value),
                     files.pos + Len("</gresource>")))))

\* The <gresource> elements from position p, up to the first text that is not
\* one.
RECURSIVE GResource_read_all(_, _)
GResource_read_all(s, p) ==
    IF ~StartsAt(s, p, "<gresource") THEN XmlRead(<<>>, p)
    ELSE
    Bind(GResource_read(s, p), LAMBDA first :
        IF ~first.ok THEN XmlReadError
        ELSE
    Bind(GResource_read_all(s, first.pos), LAMBDA rest :
        IF ~rest.ok THEN XmlReadError
        ELSE XmlRead(<<first.value>> \o rest.value, rest.pos)))

\* <gresources>gresource elements</gresources> at position p.
GResources_read(s, p) ==
    IF ~StartsAt(s, p, "<gresources") THEN XmlReadError
    ELSE
    Bind(read_attributes(s, p + Len("<gresources")), LAMBDA head :
        IF ~head.ok THEN XmlReadError
        ELSE IF head.empty THEN XmlRead(GResources_from_iter(<<>>), head.pos)
        ELSE
    Bind(GResource_read_all(s, head.pos), LAMBDA children :
        IF ~children.ok \/ ~StartsAt(s, children.pos, "</gresources>")
        THEN XmlReadError
        ELSE XmlRead(GResources_from_iter(children.value),
                     children.pos + Len("</gresources>"))))

XmlTypes == {"File", "GResource", "GResources"}

\* T::from_str: the text is one element of type T and nothing else.
from_str(type, text) ==
    LET read == IF type = "File" THEN File_read(text, 1)
                ELSE IF type = "GResource" THEN GResource_read(text, 1)
                ELSE GResources_read(text, 1)
    IN  IF read.ok /\ read.pos = Len(text) + 1 THEN XmlOk(read.value) ELSE XmlError

\* XmlWrite::to_string
to_string(type, value) ==
    IF type = "File" THEN File_to_string(value)
    ELSE IF type = "GResource" THEN GResource_to_string(value)
    ELSE GResources_to_string(value)

(***************************************************************************)
(* The external tool.  An answer of the tool is what Command::output and   *)
(* String::from_utf8 see of one run; `said` records what the text was      *)
(* written from, for the properties to refer to (the client never reads    *)
(* it).                                                                    *)
(***************************************************************************)
Answer(text, ok, said) ==
    [spawn |-> TRUE, utf8 |-> TRUE, stdout |-> text, success |-> ok, said |-> said]

\* The executable could not be started.
NotLaunched == [spawn |-> FALSE, utf8 |-> TRUE, stdout |-> "", success |-> FALSE, said |-> <<>>]

\* The tool ran and printed bytes that are not UTF-8.
NotUtf8(ok) == [spawn |-> TRUE, utf8 |-> FALSE, stdout |-> "", success |-> ok, said |-> <<>>]

Failures == {NotLaunched, NotUtf8(TRUE), NotUtf8(FALSE)}

\* The answers with one of the texts as stdout, under either exit status.
Answers(texts) == {Answer(t, ok, <<>>) : t \in texts, ok \in BOOLEAN} \cup Failures

\* --- account ---
NoExpiry == [month |-> "", day |-> "", suffix |-> "", year |-> ""]

Expiries ==
    {[month |-> "Jan", day |-> "1", suffix |-> "st", year |-> "2030"],
     [month |-> "Jan", day |-> "21", suffix |-> "st", year |-> "2030"],
     [month |-> "Feb", day |-> "29", suffix |-> "th", year |-> "2024"],
     [month |-> "Feb", day |-> "30", suffix |-> "th", year |-> "2030"],
     [month |-> "Foo", day |-> "12", suffix |-> "th", year |-> "2030"]}

\* What `nordvpn account` prints: in the tool's layout the service and the
\* expiry share a line; in the other layout every line ends with a blank and a
\* line feed before the next.
AccountSays ==
    [notLoggedIn : BOOLEAN, layout : {"tool", "lines"}, email : {"", "a@b.com"},
     service : {"", "Active", "Inactive"}, expires : Expiries \cup {NoExpiry}]

AccountText(said) ==
    (IF said.notLoggedIn THEN "You are not logged in.\n" ELSE "")
    \o (IF said.layout = "tool" THEN "Account Information:\n" ELSE "")
    \o (IF said.email = "" THEN ""
        ELSE "Email Address: " \o said.email
             \o (IF said.layout = "tool" THEN "\n" ELSE " \n"))
    \o (IF said.service = "" THEN ""
        ELSE "VPN Service: " \o said.service
             \o (IF said.layout = "tool" THEN " " ELSE " \n"))
    \o (IF said.expires = NoExpiry THEN ""
        ELSE "(Expires on " \o said.expires.month \o " " \o said.expires.day
             \o said.expires.suffix \o ", " \o said.expires.year \o ")\n")

AccountAnswers ==
    {Answer(AccountText(said), ok, said) : said \in AccountSays, ok \in BOOLEAN}
    \cup Failures

\* --- cities, countries, groups ---
ListWords == {"europe", "asia"}

ListSeparators == {", ", " ", "\n", "-"}

ListItems == {w \o sep : w \in ListWords, sep \in ListSeparators}

ListTexts ==
    {"", "europe, asia, africa", "europe,asia,", "Europe, asia\n \n"}
    \cup ListItems
    \cup {a \o b : a \in ListItems, b \in ListItems}

ListAnswers == Answers(ListTexts)

Countries == {"Germany"}

\* --- connect ---
ConnectOptions ==
    {ConnectOption("Country", <<"Germany">>),
     ConnectOption("Server", <<"de123">>),
     ConnectOption("CountryCode", <<"DE">>),
     ConnectOption("City", <<"Berlin">>),
     ConnectOption("Group", <<"P2P">>),
     ConnectOption("CountryCity", <<"Germany", "Berlin">>)}

ConnectTexts ==
    {"Connecting to Germany #123 (de123.nordvpn.com)\nYou are connected to Germany #123 (de123.nordvpn.com)!\n",
     "You are connected to United States  #12 (us12.nordvpn.com)!",
     "You are connected to Germany #99999999999 (de1.nordvpn.com)!\n",
     "Whoops! We couldn't connect you to 'Atlantis'.\n",
     ""}

ConnectAnswers == Answers(ConnectTexts)

\* --- disconnect, login, logout ---
DisconnectTexts ==
    {"You are not connected to NordVPN.\n",
     "You are disconnected from NordVPN.\n",
     "You are not connected to NordVPN.\nYou are disconnected from NordVPN.\n",
     "Whoops! Something went wrong.\n",
     ""}

DisconnectAnswers == Answers(DisconnectTexts)

LoginTexts ==
    {"You are already logged in.\n",
     "Continue in the browser: https://nordaccount.com/login?code=1\n",
     "Continue in the browser: https://nordaccount.com/login \n",
     "Continue in the browser: https://nordaccount.com/login\nYou are already logged in.\n",
     "Whoops! Something went wrong.\n",
     ""}

LoginAnswers == Answers(LoginTexts)

LogoutTexts ==
    {"You are not logged in.\n",
     "You are logged out.\n",
     "You are not logged in.\nYou are logged out.\n",
     "Whoops! Something went wrong.\n",
     ""}

LogoutAnswers == Answers(LogoutTexts)

\* --- version ---
VersionTexts ==
    {"NordVPN Version 3.12.0\n",
     "NordVPN Version 3.12.0",
     "NordVPN Version 3.12x4\n",
     "NordVPN Version 03.12.0\n",
     "NordVPN Version 3.124\n",
     "NordVPN Version 3.12.0.1 \n",
     "NordVPN Version 3.12.0-beta\n",
     "NordVPN\n",
     ""}

VersionAnswers == Answers(VersionTexts)

\* --- status ---
StatusLines ==
    {"hostname", "country", "city", "ip", "technology", "protocol", "transfer", "uptime"}

UptimeUnits == <<"year", "month", "day", "hour", "minute", "second">>

UnitNames == {UptimeUnits[k] : k \in 1..Len(UptimeUnits)}

SmallAmounts == [year |-> 1, month |-> 2, day |-> 3, hour |-> 4, minute |-> 5, second |-> 6]

MixedAmounts == [year |-> 0, month |-> 11, day |-> 1, hour |-> 23, minute |-> 59, second |-> 7]

\* What `nordvpn status` prints while connected, with the lines of `lines` only.
Connected(lines) ==
    [disconnected |-> FALSE, lines |-> lines, ip |-> "192.168.1.1",
     label |-> "Current technology:", received |-> "1.5 MiB",
     units |-> UnitNames, amount |-> SmallAmounts]

StatusSays ==
    {Connected(lines) : lines \in SUBSET StatusLines}
    \cup {[Connected(StatusLines \ gone) EXCEPT !.ip = ip] :
             ip \in {"999.1.1.1", "2001:db8::1", ":"},
             gone \in {{}, {"technology"}, {"uptime"}}}
    \cup {[Connected(StatusLines \ gone) EXCEPT !.received = received] :
             received \in {"1..5 MiB", "15 xyz"}, gone \in {{}, {"uptime"}}}
    \cup {[Connected(StatusLines) EXCEPT !.units = units] : units \in SUBSET UnitNames}
    \cup {[Connected(StatusLines) EXCEPT !.amount = MixedAmounts],
          [Connected(StatusLines) EXCEPT !.label = "Current protocol:"],
          [Connected(StatusLines) EXCEPT !.disconnected = TRUE],
          [Connected({}) EXCEPT !.disconnected = TRUE]}

\* "<n> <unit>[s] " for every unit of `units` from the k-th on, in the tool's order.
RECURSIVE UptimeText(_, _)
UptimeText(said, k) ==
    IF k > Len(UptimeUnits) THEN ""
    ELSE (IF UptimeUnits[k] \in said.units
          THEN ToString(said.amount[UptimeUnits[k]]) \o " " \o UptimeUnits[k]
               \o (IF said.amount[UptimeUnits[k]] = 1 THEN " " ELSE "s ")
          ELSE "")
         \o UptimeText(said, k + 1)

StatusText(said) ==
    LET line(name, text) == IF name \in said.lines THEN text \o "\n" ELSE ""
    IN  (IF said.disconnected THEN "Status: Disconnected\n" ELSE "Status: Connected\n")
        \o line("hostname", "Current server: de123.nordvpn.com")
        \o line("country", "Country: Germany")
        \o line("city", "City: Berlin")
        \o line("ip", "Server IP: " \o said.ip)
        \o line("technology", "Current technology: NORDLYNX")
        \o line("protocol", said.label \o " UDP")
        \o line("transfer", "Transfer: " \o said.received \o " received, 200 KiB sent")
        \o line("uptime", "Uptime: " \o UptimeText(said, 1))

StatusAnswers ==
    {Answer(StatusText(said), ok, said) : said \in StatusSays, ok \in BOOLEAN}
    \cup Failures

(***************************************************************************)
(* The runs: one operation called once, on one answer of the tool.         *)
(***************************************************************************)
Run(op, arg, answer, ret) ==
    [op |-> op, arg |-> arg, answer |-> answer, command |-> ret.command,
     result |-> ret.result, launches |-> ret.launches]

AccountRuns == {Run("account", <<>>, a, account(a)) : a \in AccountAnswers}

CitiesRuns == {Run("cities", c, a, cities(c, a)) : c \in Countries, a \in ListAnswers}

ConnectRuns == {Run("connect", o, a, connect(o, a)) : o \in ConnectOptions, a \in ConnectAnswers}

CountriesRuns == {Run("countries", <<>>, a, countries(a)) : a \in ListAnswers}

DisconnectRuns == {Run("disconnect", <<>>, a, disconnect(a)) : a \in DisconnectAnswers}

GroupsRuns == {Run("groups", <<>>, a, groups(a)) : a \in ListAnswers}

LoginRuns == {Run("login", <<>>, a, login(a)) : a \in LoginAnswers}

LogoutRuns == {Run("logout", <<>>, a, logout(a)) : a \in LogoutAnswers}

StatusRuns == {Run("status", <<>>, a, status(a)) : a \in StatusAnswers}

VersionRuns == {Run("version", <<>>, a, version(a)) : a \in VersionAnswers}

(***************************************************************************)
(* The fixtures and the two tests of gresources_tests.rs, and the elements *)
(* the tests are run on.                                                   *)
(***************************************************************************)
EXAMPLE_FILES ==
    <<[xml |-> "<file>foo/bar/baz_1.png</file>",
       value |-> File_new("foo/bar/baz_1.png", None, None, None)],
      [xml |-> "<file alias=\"image_2.png\">foo/bar/baz_2.png</file>",
       value |-> File_new("foo/bar/baz_2.png", Some("image_2.png"), None, None)],
      [xml |-> "<file compressed=\"true\">foo/bar/baz_3.png</file>",
       value |-> File_new("foo/bar/baz_3.png", None, Some(TRUE), None)],
      [xml |-> "<file preprocess=\"to-pixdata\">foo/bar/baz_4.png</file>",
       value |-> File_new("foo/bar/baz_4.png", None, None, Some("ToPixData"))],
      [xml |-> "<file alias=\"image_5.png\" compressed=\"true\" preprocess=\"to-pixdata\">"
               \o "foo/bar/baz_5.png</file>",
       value |-> File_new("foo/bar/baz_5.png", Some("image_5.png"), Some(TRUE),
                          Some("ToPixData"))],
      [xml |-> "<file alias=\"icon.svg\" compressed=\"true\" preprocess=\"xml-stripblanks\">"
               \o "foo/bar/baz_6.svg</file>",
       value |-> File_new("foo/bar/baz_6.svg", Some("icon.svg"), Some(TRUE),
                          Some("XmlStripBlanks"))]>>

EXAMPLE_GRESOURCE ==
    [xml |-> "<gresource prefix=\"/com/example/project/res\">"
             \o Concat([k \in 1..Len(EXAMPLE_FILES) |-> EXAMPLE_FILES[k].xml])
             \o "</gresource>",
     value |-> GResource_from_iter("/com/example/project/res",
                   [k \in 1..Len(EXAMPLE_FILES) |-> EXAMPLE_FILES[k].value])]

EXAMPLE_GRESOURCES ==
    [xml |-> "<gresources>" \o EXAMPLE_GRESOURCE.xml \o "</gresources>",
     value |-> GResources_from_iter(<<EXAMPLE_GRESOURCE.value>>)]

\* test_deserialize::<T>(xml, expected): what T::from_str(xml) gives.
test_deserialize(type, text) ==
    [op |-> "test_deserialize", type |-> type, input |-> text,
     output |-> from_str(type, text)]

\* test_serialize::<T>(data, expected): what data.to_string() gives.
test_serialize(type, value) ==
    [op |-> "test_serialize", type |-> type, input |-> value,
     output |-> to_string(type, value)]

\* The elements written: the fixtures' and others with every choice of the
\* optional attributes, with a path that needs an entity, and without children.
XmlFiles ==
    {EXAMPLE_FILES[k].value : k \in 1..Len(EXAMPLE_FILES)}
    \cup {File_new(path, alias, compressed, preprocess) :
              path \in {"foo/bar/baz_1.png", "a&b.png"},
              alias \in {None, Some("image_2.png")},
              compressed \in {None, Some(TRUE), Some(FALSE)},
              preprocess \in {None, Some("ToPixData"), Some("XmlStripBlanks")}}

XmlGResources ==
    {EXAMPLE_GRESOURCE.value, GResource_from_iter("/res", <<>>)}
    \cup {GResource_from_iter("/res", <<EXAMPLE_FILES[j].value, EXAMPLE_FILES[k].value>>) :
              j, k \in 1..Len(EXAMPLE_FILES)}

XmlValues ==
    {[type |-> "File", value |-> v] : v \in XmlFiles}
    \cup {[type |-> "GResource", value |-> v] : v \in XmlGResources}
    \cup {[type |-> "GResources", value |-> v] :
              v \in {EXAMPLE_GRESOURCES.value, GResources_from_iter(<<>>),
                     GResources_from_iter(<<GResource_from_iter("/res", <<>>),
                                            EXAMPLE_GRESOURCE.value>>)}}

\* The texts read: what the writer gives for the elements above, the fixtures'
\* texts, and texts that are not what the writer gives.
XmlTexts ==
    {to_string(v.type, v.value) : v \in XmlValues}
    \cup {EXAMPLE_FILES[k].xml : k \in 1..Len(EXAMPLE_FILES)}
    \cup {EXAMPLE_GRESOURCE.xml, EXAMPLE_GRESOURCES.xml}
    \cup {"",
          "<file>",
          "<file/>",
          "<file>foo/bar/baz_1.png</file",
          "<file>foo/bar/baz_1.png</file> ",
          "<files>foo/bar/baz_1.png</files>",
          "<file >foo/bar/baz_1.png</file>",
          "<file compressed=\"true\" alias=\"image_5.png\">foo/bar/baz_5.png</file>",
          "<file compressed=\"yes\">foo/bar/baz_3.png</file>",
          "<file compressed=\"maybe\">foo/bar/baz_3.png</file>",
          "<file preprocess=\"to-pix-data\">foo/bar/baz_4.png</file>",
          "<file other=\"x\">foo/bar/baz_1.png</file>",
          "<file alias=image_2.png>foo/bar/baz_2.png</file>",
          "<file>a&b.png</file>",
          "<gresource><file>foo/bar/baz_1.png</file></gresource>",
          "<gresource prefix=\"/res\"></gresource>",
          "<gresource prefix=\"/res\"><file>foo/bar/baz_1.png</file>",
          "<gresources></gresources>",
          "<gresources><file>foo/bar/baz_1.png</file></gresources>"}

(***************************************************************************)
(* The state: the calls made so far, the launches of the tool they caused, *)
(* the last call with what it returned, and the last XML element read or   *)
(* written by the gresources tests.                                        *)
(***************************************************************************)
NoCall ==
    [op |-> "none", arg |-> <<>>, answer |-> NotLaunched, command |-> <<>>,
     result |-> [tag |-> "None", error |-> "", command |-> <<>>, value |-> <<>>],
     launches |-> 0]

\* No element read or written yet.
NoTest == [op |-> "none", type |-> "", input |-> <<>>, output |-> <<>>]

Init ==
    /\ calls = 0
    /\ launches = 0
    /\ last = NoCall
    /\ xml = NoTest

\* One action for each operation: a caller calls it, the tool answers, and the
\* operation returns.  `launches` grows by the launches the call caused.
CallAccount ==
    \E run \in AccountRuns :
        /\ calls < MaxCalls
        /\ calls' = calls + 1
        /\ launches' = launches + run.launches
        /\ last' = run
        /\ xml' = xml

CallCities ==
    \E run \in CitiesRuns :
        /\ calls < MaxCalls
        /\ calls' = calls + 1
        /\ launches' = launches + run.launches
        /\ last' = run
        /\ xml' = xml

CallConnect ==
    \E run \in ConnectRuns :
        /\ calls < MaxCalls
        /\ calls' = calls + 1
        /\ launches' = launches + run.launches
        /\ last' = run
        /\ xml' = xml

CallCountries ==
    \E run \in CountriesRuns :
        /\ calls < MaxCalls
        /\ calls' = calls + 1
        /\ launches' = launches + run.launches
        /\ last' = run
        /\ xml' = xml

CallDisconnect ==
    \E run \in DisconnectRuns :
        /\ calls < MaxCalls
        /\ calls' = calls + 1
        /\ launches' = launches + run.launches
        /\ last' = run
        /\ xml' = xml

CallGroups ==
    \E run \in GroupsRuns :
        /\ calls < MaxCalls
        /\ calls' = calls + 1
        /\ launches' = launches + run.launches
        /\ last' = run
        /\ xml' = xml

CallLogin ==
    \E run \in LoginRuns :
        /\ calls < MaxCalls
        /\ calls' = calls + 1
        /\ launches' = launches + run.launches
        /\ last' = run
        /\ xml' = xml

CallLogout ==
    \E run \in LogoutRuns :
        /\ calls < MaxCalls
        /\ calls' = calls + 1
        /\ launches' = launches + run.launches
        /\ last' = run
        /\ xml' = xml

CallStatus ==
    \E run \in StatusRuns :
        /\ calls < MaxCalls
        /\ calls' = calls + 1
        /\ launches' = launches + run.launches
        /\ last' = run
        /\ xml' = xml

CallVersion ==
    \E run \in VersionRuns :
        /\ calls < MaxCalls
        /\ calls' = calls + 1
        /\ launches' = launches + run.launches
        /\ last' = run
        /\ xml' = xml

Next ==
    \/ CallAccount
    \/ CallCities
    \/ CallConnect
    \/ CallCountries
    \/ CallDisconnect
    \/ CallGroups
    \/ CallLogin
    \/ CallLogout
    \/ CallStatus
    \/ CallVersion

Spec == Init /\ [][Next]_vars

\* The tests of gresources_tests.rs, run on any of the texts and elements.
DeserializeTests ==
    {test_deserialize(type, text) : type \in XmlTypes, text \in XmlTexts}

SerializeTests == {test_serialize(v.type, v.value) : v \in XmlValues}

TestDeserialize ==
    \E test \in DeserializeTests :
        /\ xml' = test
        /\ UNCHANGED <<calls, launches, last>>

TestSerialize ==
    \E test \in SerializeTests :
        /\ xml' = test
        /\ UNCHANGED <<calls, launches, last>>

XmlNext ==
    \/ TestDeserialize
    \/ TestSerialize

XmlSpec == Init /\ [][XmlNext]_vars

(***************************************************************************)
(* Properties                                                              *)
(***************************************************************************)
\* The tool was launched and its stdout was decoded: the call has a text and an
\* exit status to look at.
Decoded(run) == run.op # "none" /\ run.answer.spawn /\ run.answer.utf8

\* The sentinel phrases of an operation, each with the alternate outcome it
\* stands for.
Sentinels(op) ==
    CASE op = "account" -> {<<"You are not logged in.", Ok(None)>>}
      [] op = "login" -> {<<"You are already logged in.", Ok(None)>>}
      [] op = "logout" -> {<<"You are not logged in.", Ok(FALSE)>>,
                           <<"You are logged out.", Ok(TRUE)>>}
      [] op = "disconnect" -> {<<"You are not connected to NordVPN.", Ok(FALSE)>>,
                               <<"You are disconnected from NordVPN.", Ok(TRUE)>>}
      [] op = "status" -> {<<"Disconnected", Ok(None)>>}
      [] OTHER -> {}

\* The alternate outcomes of the sentinel phrases the stdout of a run contains.
AlternateOutcomes(run) ==
    {s[2] : s \in {x \in Sentinels(run.op) : Contains(run.answer.stdout, x[1])}}

\* C1: in account, login, logout, disconnect and status, a stdout that contains
\* a sentinel phrase of the operation yields the alternate outcome of a phrase
\* it contains, whatever the exit status, and never FailedCommand.
C1_SentinelBeforeExitStatus ==
    (Decoded(last) /\ AlternateOutcomes(last) # {})
        => last.result \in AlternateOutcomes(last)

\* C2: in every operation, an unsuccessful exit with no sentinel phrase of the
\* operation in stdout yields FailedCommand carrying the command that was
\* launched; an unsuccessful exit never yields BadOutput.
C2_FailedExitIsFailedCommand ==
    (Decoded(last) /\ ~last.answer.success)
        => /\ last.result.error # "BadOutput"
           /\ AlternateOutcomes(last) = {}
                 => /\ last.result = ErrCommand("FailedCommand", last.command)
                    /\ last.command # <<>>

\* C2 happens: connect exits unsuccessfully on a stdout its pattern matches.
C2_Witness ==
    /\ Decoded(last)
    /\ last.op = "connect"
    /\ ~last.answer.success
    /\ RE_CONNECT(last.answer.stdout).matched
    /\ last.result = ErrCommand("FailedCommand", last.command)

\* C3: logout and disconnect classify alike: the negative sentinel yields
\* false, the positive one true, neither with a failing exit FailedCommand,
\* neither with a successful exit BadOutput.
C3_LogoutDisconnectClassification ==
    (Decoded(last) /\ last.op \in {"logout", "disconnect"})
        => LET negative == IF last.op = "logout" THEN "You are not logged in."
                           ELSE "You are not connected to NordVPN."
               positive == IF last.op = "logout" THEN "You are logged out."
                           ELSE "You are disconnected from NordVPN."
               no == Contains(last.answer.stdout, negative)
               yes == Contains(last.answer.stdout, positive)
           IN  /\ no => last.result = Ok(FALSE)
               /\ (yes /\ ~no) => last.result = Ok(TRUE)
               /\ (~yes /\ ~no /\ ~last.answer.success)
                     => last.result = ErrCommand("FailedCommand", last.command)
               /\ (~yes /\ ~no /\ last.answer.success)
                     => last.result = ErrCommand("BadOutput", last.command)

\* The eight patterns of status, each on the text.
StatusMatches(text) ==
    [hostname |-> RE_HOSTNAME(text).matched,
     country |-> RE_COUNTRY(text).matched,
     city |-> RE_CITY(text).matched,
     ip |-> RE_IP(text).matched,
     technology |-> RE_TECHNOLOGY(text).matched,
     protocol |-> RE_PROTOCOL(text).matched,
     transfer |-> RE_TRANSFER(text).matched,
     uptime |-> RE_UPTIME(text).matched]

\* status got past its sentinel and its exit status.
StatusExtracts(run) ==
    /\ Decoded(run)
    /\ run.op = "status"
    /\ run.answer.success
    /\ ~Contains(run.answer.stdout, "Disconnected")

\* C4: with a successful exit and no "Disconnected", status returns a Status
\* only when all eight patterns matched, and BadOutput carrying the command as
\* soon as one of them did not, whichever of the others matched.
C4_StatusAllOrBadOutput ==
    StatusExtracts(last)
        => LET matches == StatusMatches(last.answer.stdout)
               all == \A name \in StatusLines : matches[name]
           IN  /\ last.result.tag = "Ok" => (all /\ last.result.value.some)
               /\ ~all => last.result = ErrCommand("BadOutput", last.command)

\* The seconds the Uptime line of a status text stands for: every unit that is
\* written counts its amount, every other unit zero.
UptimeWritten(said) ==
    LET amount(unit) == IF unit \in said.units THEN said.amount[unit] ELSE 0
    IN  amount("second") + amount("minute") * 60 + amount("hour") * 3600
        + amount("day") * 86400 + amount("month") * 2628000
        + amount("year") * 31540000

\* C5: the uptime of a Status is a duration of exactly the seconds its Uptime
\* line stands for, whichever of the six units the line has.
C5_UptimeIsWholeSeconds ==
    (StatusExtracts(last) /\ last.result.tag = "Ok")
        => last.result.value.val.uptime
               = [secs |-> UptimeWritten(last.answer.said), millis |-> 0]

\* The calendar date an expiry names; year 0 when it names none.
DateNamed(expires) ==
    LET months == {k \in 1..12 : MonthNames[k] = ToLower(expires.month)}
        day == DecimalValue(expires.day)
        year == DecimalValue(expires.year)
    IN  IF months # {} /\ 1 <= day /\ day <= DaysInMonth(year, Min(months))
        THEN [year |-> year, month |-> Min(months), day |-> day]
        ELSE [year |-> 0, month |-> 0, day |-> 0]

\* C6: on a zero exit status and a stdout without the sentinel that has the
\* three lines and names a calendar date, account returns the Account with the
\* address as written, active iff the service word is "Active", and that date.
C6_AccountAsWritten ==
    LET said == last.answer.said
    IN  (/\ Decoded(last)
         /\ last.op = "account"
         /\ last.answer.success
         /\ ~said.notLoggedIn
         /\ said.email # ""
         /\ said.service # ""
         /\ said.expires # NoExpiry
         /\ DateNamed(said.expires).year # 0)
            => last.result = Ok(Some([email |-> said.email,
                                      active |-> said.service = "Active",
                                      expires |-> DateNamed(said.expires)]))

\* The positions of a text where a word (a longest run of word characters)
\* starts that a comma follows, or that only white space separates from the end.
TokenStarts(text) ==
    {i \in 1..Len(text) :
        /\ At(text, i) \in Word
        /\ At(text, i - 1) \notin Word
        /\ LET e == i + RunLen(text, i, Word)
           IN  At(text, e) = "," \/ \A k \in e..Len(text) : At(text, k) \in Space}

\* The comma-or-end-delimited words of a text, in their order of occurrence.
Tokens(text) ==
    LET starts == TokenStarts(text)
        nth(k) == CHOOSE i \in starts : Cardinality({j \in starts : j < i}) = k - 1
    IN  [k \in 1..Cardinality(starts) |->
            Slice(text, nth(k), nth(k) + RunLen(text, nth(k), Word))]

\* C7: on a successful exit, cities, countries and groups return exactly the
\* comma-or-end-delimited words of stdout in their order, and BadOutput, never
\* an empty list, when there is none.
C7_ListIsTokenSequence ==
    (Decoded(last) /\ last.op \in {"cities", "countries", "groups"} /\ last.answer.success)
        => IF Tokens(last.answer.stdout) = <<>>
           THEN last.result = ErrCommand("BadOutput", last.command)
           ELSE last.result = Ok(Tokens(last.answer.stdout))

\* C7 happens: the three words of "europe, asia, africa" are returned in order.
C7_Witness ==
    /\ last.op = "countries"
    /\ last.answer.success
    /\ last.answer.stdout = "europe, asia, africa"
    /\ last.result = Ok(<<"europe", "asia", "africa">>)

\* C8: connect launches "nordvpn", "connect" and then the payload of its
\* option: one argument for Country, Server, CountryCode, City and Group, and
\* two, the country and then the city, for CountryCity.
C8_ConnectArguments ==
    last.op = "connect"
        => LET option == last.arg
           IN  IF option.variant = "CountryCity"
               THEN last.command
                        = <<"nordvpn", "connect", option.payload[1], option.payload[2]>>
               ELSE /\ option.variant \in {"Country", "Server", "CountryCode", "City", "Group"}
                    /\ last.command = <<"nordvpn", "connect", option.payload[1]>>

\* C8 happens: CountryCity("Germany", "Berlin") launches connect Germany Berlin.
C8_Witness ==
    /\ last.op = "connect"
    /\ last.arg = ConnectOption("CountryCity", <<"Germany", "Berlin">>)
    /\ last.command = <<"nordvpn", "connect", "Germany", "Berlin">>

\* C9: on a successful exit with every pattern matched, account returns
\* BadDateFormat when the expiry names no calendar date, and version returns
\* BadVersion when the matched text is no semantic version; BadOutput is
\* returned only when a pattern did not match.
C9_ConversionErrorsAreTyped ==
    /\ (Decoded(last) /\ last.op = "account" /\ last.answer.success
           /\ ~Contains(last.answer.stdout, "You are not logged in."))
          => LET all == /\ RE_EMAIL(last.answer.stdout).matched
                        /\ RE_ACTIVE(last.answer.stdout).matched
                        /\ RE_EXPIRES(last.answer.stdout).matched
             IN  /\ (all /\ DateNamed(last.answer.said.expires).year = 0)
                       => last.result = ErrFrom("BadDateFormat")
                 /\ last.result.error = "BadOutput" => ~all
    /\ (Decoded(last) /\ last.op = "version" /\ last.answer.success)
          => LET found == RE_VERSION(last.answer.stdout)
             IN  /\ (found.matched /\ ~Version_parse(found.caps[1]).ok)
                       => last.result = ErrFrom("BadVersion")
                 /\ last.result.error = "BadOutput" => ~found.matched

\* C9 happens: every pattern of account matched and the expiry is February 30th.
C9_Witness ==
    /\ Decoded(last)
    /\ last.op = "account"
    /\ last.answer.success
    /\ RE_EMAIL(last.answer.stdout).matched
    /\ RE_ACTIVE(last.answer.stdout).matched
    /\ RE_EXPIRES(last.answer.stdout).caps = <<"Feb", "30", "2030">>
    /\ last.result = ErrFrom("BadDateFormat")

\* C10: every call launches the tool exactly once, so the launches made are as
\* many as the calls made, whatever the calls returned.
C10_OneLaunchPerCall ==
    /\ launches = calls
    /\ last.op # "none" => last.launches = 1

\* C10 happens: two calls, the second one failed, two launches.
C10_Witness ==
    /\ calls = 2
    /\ launches = 2
    /\ last.result.error = "FailedCommand"

\* The fixtures of gresources_tests.rs, each with the type it is tested as.
ExampleCases ==
    {[type |-> "File", xml |-> EXAMPLE_FILES[k].xml, value |-> EXAMPLE_FILES[k].value] :
         k \in 1..Len(EXAMPLE_FILES)}
    \cup {[type |-> "GResource", xml |-> EXAMPLE_GRESOURCE.xml,
           value |-> EXAMPLE_GRESOURCE.value],
          [type |-> "GResources", xml |-> EXAMPLE_GRESOURCES.xml,
           value |-> EXAMPLE_GRESOURCES.value]}

\* C11: for each of the six <file> fixtures and the gresource and gresources
\* documents built from them, reading the XML text gives exactly the expected
\* value and writing the value gives exactly the text, so that reading and then
\* writing, and writing and then reading, give back what they started from.
C11_FixturesRoundTrip ==
    \A c \in ExampleCases :
        /\ (xml.op = "test_deserialize" /\ xml.type = c.type /\ xml.input = c.xml)
              => /\ xml.output = XmlOk(c.value)
                 /\ to_string(c.type, xml.output.value) = c.xml
        /\ (xml.op = "test_serialize" /\ xml.type = c.type /\ xml.input = c.value)
              => /\ xml.output = c.xml
                 /\ from_str(c.type, xml.output) = XmlOk(c.value)

\* C11 happens: the gresources document, with the six files in it, was read
\* and gave the expected value.
C11_Witness ==
    /\ xml.op = "test_deserialize"
    /\ xml.type = "GResources"
    /\ xml.input = EXAMPLE_GRESOURCES.xml
    /\ xml.output = XmlOk(EXAMPLE_GRESOURCES.value)
    /\ Len(xml.output.value.gresources[1].files) = 6

\* C12: technology and protocol are extracted by independent patterns: for a
\* stdout (successful exit, no "Disconnected") with the technology line naming
\* NORDLYNX, a separate "Current protocol:" line naming UDP and the other six
\* fields, status returns a Status with technology NordLynx and protocol Udp.
C12_TechnologyAndProtocolIndependent ==
    LET said == last.answer.said
    IN  (/\ StatusExtracts(last)
         /\ said.lines = StatusLines
         /\ said.label = "Current protocol:"
         /\ said.ip = "192.168.1.1"
         /\ said.received = "1.5 MiB")
            => /\ last.result.tag = "Ok"
               /\ last.result.value.some
               /\ last.result.value.val.technology = "NordLynx"
               /\ last.result.value.val.protocol = "Udp"

=============================================================================
